---- MODULE Spec2Model ----
(***************************************************************************)
(* A model of the Rljson class (src/src/rljson.ts, first class of the      *)
(* file): an in-memory store of tables of content-hashed rows.             *)
(*                                                                         *)
(* JSON objects are functions from keys to values.  The keys of the        *)
(* database object (table names and "_hash") are sequences of characters,  *)
(* so that the naming rules can be computed character by character.  The   *)
(* keys of tables and rows are strings.  A JSON value under "_data"        *)
(* carries its dynamic type: [type |-> "array", items |-> <<...>>] or      *)
(* [type |-> "object", items |-> <<>>].                                    *)
(***************************************************************************)
EXTENDS Integers, Sequences, FiniteSets, TLC

\* ------------------------------------------------------------------ bounds
\* Largest number of rows in one batch (all its tables together).
MaxBatchRows == 2
\* Largest number of calls made on the store after its construction.
MaxCalls == 1
\* Longest string given to checkTableName.
MaxNameLen == 4

\* --------------------------------------------------------------- character
Letters ==
  {"a", "b", "c", "d", "e", "f", "g", "h", "i", "j", "k", "l", "m",
   "n", "o", "p", "q", "r", "s", "t", "u", "v", "w", "x", "y", "z",
   "A", "B", "C", "D", "E", "F", "G", "H", "I", "J", "K", "L", "M",
   "N", "O", "P", "Q", "R", "S", "T", "U", "V", "W", "X", "Y", "Z"}

Digits == {"0", "1", "2", "3", "4", "5", "6", "7", "8", "9"}

\* The key "_hash" of the database object.
HashKey == <<"_", "h", "a", "s", "h">>

\* /^[a-zA-Z0-9]+$/.test(str)
IsAlnum(str) ==
  /\ Len(str) > 0
  /\ \A i \in 1..Len(str) : str[i] \in (Letters \cup Digits)

\* str.endsWith('Ref')
EndsWithRef(str) ==
  /\ Len(str) >= 3
  /\ SubSeq(str, Len(str) - 2, Len(str)) = <<"R", "e", "f">>

\* /^[0-9]/.test(str)
StartsWithDigit(str) == Len(str) > 0 /\ str[1] \in Digits

\* checkTableName with the suffix rule and the digit rule exchanged
checkTableNameDigitFirst(str) ==
  IF ~IsAlnum(str) THEN "chars"
  ELSE IF StartsWithDigit(str) THEN "digit"
  ELSE IF EndsWithRef(str) THEN "ref"
  ELSE "ok"

\* Rljson.checkTableName: "ok", or the rule the thrown error names.
checkTableName(str) ==
  IF ~IsAlnum(str) THEN "chars"
  ELSE IF EndsWithRef(str) THEN "ref"
  ELSE IF StartsWithDigit(str) THEN "digit"
  ELSE "ok"

\* Rljson.checkTableNames over the keys of data, in their order: the
\* error of the first key (other than "_hash") that checkTableName rejects.
RECURSIVE checkTableNames(_)
checkTableNames(keys) ==
  IF keys = <<>> THEN "ok"
  ELSE IF Head(keys) = HashKey THEN checkTableNames(Tail(keys))
  ELSE IF checkTableName(Head(keys)) # "ok" THEN checkTableName(Head(keys))
  ELSE checkTableNames(Tail(keys))

\* ------------------------------------------------------------ JSON objects
EmptyObj == <<>>

HasKey(obj, key) == key \in DOMAIN obj

\* obj[key] = value
With(obj, key, value) ==
  [x \in DOMAIN obj \cup {key} |-> IF x = key THEN value ELSE obj[x]]

\* delete obj[key]
Without(obj, key) == [x \in DOMAIN obj \ {key} |-> obj[x]]

Arr(items) == [type |-> "array", items |-> items]

NotAnArray == [type |-> "object", items |-> <<>>]

\* The table names the model uses: two valid ones and one that ends in Ref.
TA == <<"a">>
TB == <<"b">>
TBad == <<"a", "R", "e", "f">>
\* A valid name no batch of the model ever carries.
TNone == <<"c">>

\* Object.keys(obj) of a database object: the model's inputs list their keys
\* in this order, and "_hash", which the hash provider writes, comes last.
KeyOrder == <<TA, TB, TBad, HashKey>>

Keys(obj) == SelectSeq(KeyOrder, LAMBDA key : key \in DOMAIN obj)

\* The keys of a database object that name tables.
TableKeys(obj) == SelectSeq(Keys(obj), LAMBDA key : key # HashKey)

\* ----------------------------------------------------------- hash provider
\* The values a row's field k takes.
Contents == {1, 2}

\* The fields a row of the model can have, in the order Object.keys(row)
\* lists them: a plain field, fields that refer to a row of table a, b
\* or c, and the hash, which the hash provider writes last.
FieldOrder == <<"k", "aRef", "bRef", "cRef", "_hash">>

\* The characters of a field's name.
Spelling(field) ==
  CASE field = "k" -> <<"k">>
    [] field = "aRef" -> <<"a", "R", "e", "f">>
    [] field = "bRef" -> <<"b", "R", "e", "f">>
    [] field = "cRef" -> <<"c", "R", "e", "f">>
    [] field = "_hash" -> HashKey

\* Object.keys(row)
RowKeys(row) == SelectSeq(FieldOrder, LAMBDA field : field \in DOMAIN row)

\* The hash of a row that no table of the model holds.
NonExistingHash == 999

\* The values the reference fields of the model take: hashes of rows of the
\* model and the hash of no row.
RefTargets == <<101, 102, 111, NonExistingHash>>

\* The part a field's value takes in the digest of its row: nothing when
\* the row has no such field, else a digit that tells its values apart.
Digit(row, field) ==
  IF field \notin DOMAIN row THEN 0
  ELSE IF field = "k" THEN row.k
  ELSE CHOOSE i \in 1..Len(RefTargets) : RefTargets[i] = row[field]

\* The content hash of a row: a digest of its fields other than _hash.
calcRowHash(row) ==
  100 + Digit(row, "k") + 10 * Digit(row, "aRef")
      + 100 * Digit(row, "bRef") + 1000 * Digit(row, "cRef")

\* A hash that is not the content hash of the row (it is the content hash
\* of a row with another value of k).
wrongRowHash(row) == 100 + ((row.k % Cardinality(Contents)) + 1)

\* The content hash of a table: a digest of its _data, in which every row
\* counts with the _hash it carries.
calcTableHash(rows) == [i \in 1..Len(rows) |-> rows[i]._hash]

\* The content hash of the database object: a digest of its tables, each
\* counting with the _hash it carries.
calcRootHash(obj) ==
  [key \in DOMAIN obj \ {HashKey} |-> obj[key]._hash]

\* JsonHash.apply on a row.
applyRow(row, updateExisting) ==
  IF HasKey(row, "_hash") /\ ~updateExisting THEN row
  ELSE With(row, "_hash", calcRowHash(row))

\* JsonHash.apply on a table whose _data is an array.
applyTable(tbl, updateExisting) ==
  LET old == tbl._data.items
      rows == [i \in 1..Len(old) |-> applyRow(old[i], updateExisting)]
      hashed == [tbl EXCEPT !._data = Arr(rows)]
  IN IF HasKey(tbl, "_hash") /\ ~updateExisting THEN hashed
     ELSE With(hashed, "_hash", calcTableHash(rows))

\* JsonHash.apply on a database object: every node gets a hash; a hash
\* that is already there is recomputed only when updateExisting is set.
applyHashes(obj, updateExisting) ==
  LET tables == [key \in DOMAIN obj \ {HashKey} |->
                   applyTable(obj[key], updateExisting)]
  IN IF HasKey(obj, HashKey) /\ ~updateExisting
       THEN With(tables, HashKey, obj[HashKey])
       ELSE With(tables, HashKey, calcRootHash(tables))

\* Some node of obj carries no hash.
HashMissing(obj) ==
  \/ ~HasKey(obj, HashKey)
  \/ \E key \in DOMAIN obj \ {HashKey} :
       \/ ~HasKey(obj[key], "_hash")
       \/ \E i \in 1..Len(obj[key]._data.items) :
            ~HasKey(obj[key]._data.items[i], "_hash")

\* JsonHash.validate: "ok", or why it throws.
validate(obj) ==
  IF HashMissing(obj) THEN "missing"
  ELSE IF applyHashes(obj, TRUE) # obj THEN "wrong"
  ELSE "ok"

\* ------------------------------------------------------------------ Rljson
\* Array.isArray(tableData['_data'])
IsArray(tbl) == HasKey(tbl, "_data") /\ tbl._data.type = "array"

\* Rljson._checkData, its two lists of offending tables.
tablesWithMissingData(added) ==
  SelectSeq(TableKeys(added), LAMBDA key : ~HasKey(added[key], "_data"))

tablesWithWrongType(added) ==
  SelectSeq(TableKeys(added), LAMBDA key : ~IsArray(added[key]))

\* Rljson._checkData: "ok", or the error it throws.
checkData(added) ==
  IF Len(tablesWithMissingData(added)) > 0 THEN "missing"
  ELSE IF Len(tablesWithWrongType(added)) > 0 THEN "notlist"
  ELSE "ok"

\* _checkData naming in its error the first offending table only.
checkDataNamedFailFast(added) ==
  IF Len(tablesWithMissingData(added)) > 0
    THEN <<Head(tablesWithMissingData(added))>>
    ELSE SubSeq(tablesWithWrongType(added), 1, 1)

\* Rljson._checkData: the tables its error message names, joined by ", ".
checkDataNamed(added) ==
  IF Len(tablesWithMissingData(added)) > 0
    THEN tablesWithMissingData(added)
    ELSE tablesWithWrongType(added)

\* Rljson._toMap for one table: the rows keyed by their hash; a later row
\* overwrites an earlier one with the same hash.
toMapTable(rows) ==
  LET last(h) == CHOOSE i \in 1..Len(rows) :
                   /\ rows[i]._hash = h
                   /\ \A j \in (i + 1)..Len(rows) : rows[j]._hash # h
  IN [h \in {rows[i]._hash : i \in 1..Len(rows)} |-> rows[last(h)]]

\* Rljson._toMap: every key that does not start with '_' is a table.
toMap(obj) ==
  [key \in {x \in DOMAIN obj : x[1] # "_"} |->
     toMapTable(obj[key]._data.items)]

\* The loop over the incoming rows with every row appended, whether its
\* hash is stored or not.
RECURSIVE mergeRowsNoCheck(_, _, _)
mergeRowsNoCheck(merged, newData, i) ==
  IF i > Len(newData) THEN merged
  ELSE mergeRowsNoCheck(
         [rows |-> Append(merged.rows, newData[i]),
          indexed |-> With(merged.indexed, newData[i]._hash, newData[i])],
         newData, i + 1)

\* The loop over the incoming rows with a new row put in front of the
\* stored ones (unshift for push).
RECURSIVE mergeRowsInFront(_, _, _)
mergeRowsInFront(merged, newData, i) ==
  IF i > Len(newData) THEN merged
  ELSE IF ~HasKey(merged.indexed, newData[i]._hash)
    THEN mergeRowsInFront(
           [rows |-> <<newData[i]>> \o merged.rows,
            indexed |-> With(merged.indexed, newData[i]._hash, newData[i])],
           newData, i + 1)
    ELSE mergeRowsInFront(merged, newData, i + 1)

\* The loop over the incoming rows with the row of the index replaced by
\* an incoming row of the same hash.
RECURSIVE mergeRowsOverwrite(_, _, _)
mergeRowsOverwrite(merged, newData, i) ==
  IF i > Len(newData) THEN merged
  ELSE IF ~HasKey(merged.indexed, newData[i]._hash)
    THEN mergeRowsOverwrite(
           [rows |-> Append(merged.rows, newData[i]),
            indexed |-> With(merged.indexed, newData[i]._hash, newData[i])],
           newData, i + 1)
    ELSE mergeRowsOverwrite(
           [rows |-> merged.rows,
            indexed |-> With(merged.indexed, newData[i]._hash, newData[i])],
           newData, i + 1)

\* Rljson.addData, the loop over the incoming rows of a table that exists:
\* merged is [rows, indexed], the merged table and its index so far.
RECURSIVE mergeRows(_, _, _)
mergeRows(merged, newData, i) ==
  IF i > Len(newData) THEN merged
  ELSE LET item == newData[i]
           hash == item._hash
           exists == HasKey(merged.indexed, hash)
       IN IF ~exists
            THEN mergeRows([rows |-> Append(merged.rows, item),
                            indexed |-> With(merged.indexed, hash, item)],
                           newData, i + 1)
            ELSE mergeRows(merged, newData, i + 1)

\* The loop over the tables with a table that is new to the instance
\* merged row by row like one that exists, so that a hash enters once.
RECURSIVE mergeTablesDedup(_, _, _, _, _, _)
mergeTablesDedup(m, thisData, thisIndexed, added, addedAsMap, keys) ==
  IF keys = <<>> THEN m
  ELSE LET table == Head(keys)
           merged == mergeRows(
                       IF HasKey(thisData, table)
                         THEN [rows |-> thisData[table]._data.items,
                               indexed |-> thisIndexed[table]]
                         ELSE [rows |-> <<>>, indexed |-> EmptyObj],
                       added[table]._data.items, 1)
           newTable == [added[table] EXCEPT !._data = Arr(merged.rows)]
       IN IF table = HashKey
            THEN mergeTablesDedup(m, thisData, thisIndexed, added,
                                  addedAsMap, Tail(keys))
            ELSE mergeTablesDedup(
                   [data |-> With(m.data, table, newTable),
                    indexed |-> With(m.indexed, table, merged.indexed)],
                   thisData, thisIndexed, added, addedAsMap, Tail(keys))

\* The loop over the tables with a table the instance has replaced by the
\* table of the batch.
RECURSIVE mergeTablesReplace(_, _, _, _, _, _)
mergeTablesReplace(m, thisData, thisIndexed, added, addedAsMap, keys) ==
  IF keys = <<>> THEN m
  ELSE IF Head(keys) = HashKey
    THEN mergeTablesReplace(m, thisData, thisIndexed, added, addedAsMap,
                            Tail(keys))
  ELSE mergeTablesReplace(
         [data |-> With(m.data, Head(keys), added[Head(keys)]),
          indexed |-> With(m.indexed, Head(keys), addedAsMap[Head(keys)])],
         thisData, thisIndexed, added, addedAsMap, Tail(keys))

\* Rljson.addData, the loop over the tables of the hashed batch: m is
\* [data, indexed], the merged database and its index so far.
RECURSIVE mergeTables(_, _, _, _, _, _)
mergeTables(m, thisData, thisIndexed, added, addedAsMap, keys) ==
  IF keys = <<>> THEN m
  ELSE LET table == Head(keys)
       IN IF table = HashKey
            THEN mergeTables(m, thisData, thisIndexed, added, addedAsMap,
                             Tail(keys))
          ELSE IF ~HasKey(thisData, table)
            THEN mergeTables(
                   [data |-> With(m.data, table, added[table]),
                    indexed |-> With(m.indexed, table, addedAsMap[table])],
                   thisData, thisIndexed, added, addedAsMap, Tail(keys))
          ELSE LET merged == mergeRows(
                               [rows |-> thisData[table]._data.items,
                                indexed |-> thisIndexed[table]],
                               added[table]._data.items, 1)
                   newTable == [added[table] EXCEPT
                                  !._data = Arr(merged.rows)]
               IN mergeTables(
                    [data |-> With(m.data, table, newTable),
                     indexed |-> With(m.indexed, table, merged.indexed)],
                    thisData, thisIndexed, added, addedAsMap, Tail(keys))

\* What a call leaves behind: the error thrown ("none" when it returns),
\* whether the returned instance is the one called, the content of the
\* called instance after the call and the content of the returned one.
Outcome(err, same, d, di, rd, rdi) ==
  [err |-> err, same |-> same, data |-> d, dataIndexed |-> di,
   retData |-> rd, retIndexed |-> rdi]

Thrown(err, d, di) == Outcome(err, FALSE, d, di, EmptyObj, EmptyObj)

\* Rljson.addData from the hashing of the batch on: the instance without
\* data hands the hashed batch to a new instance, any other instance
\* merges it, rehashes and replaces its own data.
addDataMerge(thisData, thisIndexed, addedData, updateHashes) ==
  LET added == applyHashes(addedData, updateHashes)
      addedAsMap == toMap(added)
  IN IF DOMAIN thisData = {}
       THEN Outcome("none", FALSE, thisData, thisIndexed, added, addedAsMap)
       ELSE LET m == mergeTables(
                       [data |-> thisData, indexed |-> thisIndexed],
                       thisData, thisIndexed, added, addedAsMap, Keys(added))
                mergedData == applyHashes(Without(m.data, HashKey), FALSE)
            IN Outcome("none", TRUE, mergedData, m.indexed,
                       mergedData, m.indexed)

\* addData with the hashes validated only after the merge has replaced the
\* instance's data.
addDataValidateLate(thisData, thisIndexed, addedData, validateHashes, updateHashes) ==
  IF checkData(addedData) # "ok"
    THEN Thrown(checkData(addedData), thisData, thisIndexed)
  ELSE IF checkTableNames(Keys(addedData)) # "ok"
    THEN Thrown(checkTableNames(Keys(addedData)), thisData, thisIndexed)
  ELSE LET out == addDataMerge(thisData, thisIndexed, addedData, updateHashes)
       IN IF validateHashes /\ validate(addedData) # "ok"
            THEN Thrown("hash", out.data, out.dataIndexed)
            ELSE out

\* addData without the call of validate (the fault of the versions before
\* 4.1.5).
addDataNoValidate(thisData, thisIndexed, addedData, validateHashes, updateHashes) ==
  IF checkData(addedData) # "ok"
    THEN Thrown(checkData(addedData), thisData, thisIndexed)
  ELSE IF checkTableNames(Keys(addedData)) # "ok"
    THEN Thrown(checkTableNames(Keys(addedData)), thisData, thisIndexed)
  ELSE addDataMerge(thisData, thisIndexed, addedData, updateHashes)

\* addData that never lets the hash provider update an existing hash.
addDataKeepHashes(thisData, thisIndexed, addedData, validateHashes, updateHashes) ==
  IF checkData(addedData) # "ok"
    THEN Thrown(checkData(addedData), thisData, thisIndexed)
  ELSE IF checkTableNames(Keys(addedData)) # "ok"
    THEN Thrown(checkTableNames(Keys(addedData)), thisData, thisIndexed)
  ELSE IF validateHashes /\ validate(addedData) # "ok"
    THEN Thrown("hash", thisData, thisIndexed)
  ELSE addDataMerge(thisData, thisIndexed, addedData, FALSE)

\* Rljson.addData on the instance holding thisData and thisIndexed.
addData(thisData, thisIndexed, addedData, validateHashes, updateHashes) ==
  IF checkData(addedData) # "ok"
    THEN Thrown(checkData(addedData), thisData, thisIndexed)
  ELSE IF checkTableNames(Keys(addedData)) # "ok"
    THEN Thrown(checkTableNames(Keys(addedData)), thisData, thisIndexed)
  ELSE IF validateHashes /\ validate(addedData) # "ok"
    THEN Thrown("hash", thisData, thisIndexed)
  ELSE addDataMerge(thisData, thisIndexed, addedData, updateHashes)

\* Rljson.createTable
createTable(thisData, thisIndexed, table) ==
  addData(thisData, thisIndexed,
          table :> [_data |-> Arr(<<>>)], FALSE, TRUE)

\* Rljson.fromJson: addData on a new instance without data; the instance
\* addData returns is the result.
fromJson(json, validateHashes, updateHashes) ==
  addData(EmptyObj, EmptyObj, json, validateHashes, updateHashes)

\* addRow that writes the item without looking whether its hash is stored.
addRowAlways(thisData, thisIndexed, table, item, strict) ==
  IF HasKey(item, "_hash") /\ item._hash # calcRowHash(item) /\ strict
    THEN Thrown("hash", thisData, thisIndexed)
  ELSE IF ~HasKey(thisData, table)
    THEN Thrown("notfound", thisData, thisIndexed)
  ELSE Outcome("none", FALSE,
         [thisData EXCEPT ![table]._data.items =
                            Append(@, applyRow(item, FALSE))],
         [thisIndexed EXCEPT ![table] =
                               With(@, applyRow(item, FALSE)._hash,
                                    applyRow(item, FALSE))],
         EmptyObj, EmptyObj)

\* Rljson.addRow.  The item is hashed with updateExistingHashes = false and
\* throwIfOnWrongHashes = true: an item without a hash gets its content
\* hash; an item carrying a hash that is not its content hash is refused
\* by a hash provider that checks it (strict) and kept as it is by one
\* that does not look at an existing hash.
addRow(thisData, thisIndexed, table, item, strict) ==
  IF HasKey(item, "_hash") /\ item._hash # calcRowHash(item) /\ strict
    THEN Thrown("hash", thisData, thisIndexed)
  ELSE IF ~HasKey(thisData, table)
    THEN Thrown("notfound", thisData, thisIndexed)
  ELSE
    LET hashed == applyRow(item, FALSE)
        itemExists == HasKey(thisIndexed[table], hashed._hash)
    IN IF itemExists
         THEN Outcome("none", FALSE, thisData, thisIndexed,
                      EmptyObj, EmptyObj)
         ELSE Outcome("none", FALSE,
                [thisData EXCEPT ![table]._data.items =
                                   Append(@, hashed)],
                [thisIndexed EXCEPT ![table] =
                                      With(@, hashed._hash, hashed)],
                EmptyObj, EmptyObj)

\* ----------------------------------------------------------------- queries
\* The row hash of length 0: the string ''.
EmptyHash == 0

\* What a query returns, and what it throws: the kind of the error and
\* the table, row hash and key its message names.
Returns(val) == [err |-> "none", val |-> val]

Throws(err, name, itemHash, key) ==
  [err |-> err, table |-> name, hash |-> itemHash, key |-> key]

\* The values a query returns: the value of a field, a row, undefined.
FieldValue(v) == [type |-> "value", v |-> v]

RowValue(item) == [type |-> "row", row |-> item]

Undefined == [type |-> "undefined"]

\* row[key] for a key given by its characters.
FieldsNamed(item, key) == {field \in DOMAIN item : Spelling(field) = key}

HasField(item, key) == FieldsNamed(item, key) # {}

Field(item, key) == item[CHOOSE field \in FieldsNamed(item, key) : TRUE]

\* The key itself taken for the name of the table it refers to.
StripNothing(key) == key

\* key.substring(0, key.length - 3)
StripRef(key) == SubSeq(key, 1, Len(key) - 3)

\* Rljson.hasTable
hasTable(thisIndexed, name) == HasKey(thisIndexed, name)

\* Rljson.table
table(thisData, name) ==
  IF ~HasKey(thisData, name)
    THEN Throws("tableNotFound", name, EmptyHash, <<>>)
  ELSE Returns(thisData[name])

\* row() handing out the fields of the row without its hash.
rowWithoutHash(thisIndexed, name, itemHash) ==
  IF ~HasKey(thisIndexed, name)
    THEN Throws("tableNotFound", name, EmptyHash, <<>>)
  ELSE IF ~HasKey(thisIndexed[name], itemHash)
    THEN Throws("itemNotFound", name, itemHash, <<>>)
  ELSE Returns(RowValue(Without(thisIndexed[name][itemHash], "_hash")))

\* Rljson.row
row(thisIndexed, name, itemHash) ==
  IF ~HasKey(thisIndexed, name)
    THEN Throws("tableNotFound", name, EmptyHash, <<>>)
  ELSE IF ~HasKey(thisIndexed[name], itemHash)
    THEN Throws("itemNotFound", name, itemHash, <<>>)
  ELSE Returns(RowValue(thisIndexed[name][itemHash]))

\* value() returning the field whatever keys follow it.
RECURSIVE valueIgnoringMoreKeys(_, _, _, _)
valueIgnoringMoreKeys(thisIndexed, name, itemHash, followLink) ==
  IF itemHash = EmptyHash
    THEN Throws("emptyHash", <<>>, EmptyHash, <<>>)
  ELSE IF row(thisIndexed, name, itemHash).err # "none"
    THEN row(thisIndexed, name, itemHash)
  ELSE IF followLink = <<>>
    THEN row(thisIndexed, name, itemHash)
  ELSE
    LET item == thisIndexed[name][itemHash]
        refKey == Head(followLink)
    IN IF ~HasField(item, refKey)
         THEN Throws("keyNotFound", name, itemHash, refKey)
       ELSE IF ~EndsWithRef(refKey)
         THEN Returns(FieldValue(Field(item, refKey)))
       ELSE valueIgnoringMoreKeys(thisIndexed, StripRef(refKey),
              Field(item, refKey), Tail(followLink))

\* value() looking for the row before it looks at the length of the hash.
RECURSIVE valueRowFirst(_, _, _, _)
valueRowFirst(thisIndexed, name, itemHash, followLink) ==
  IF row(thisIndexed, name, itemHash).err # "none"
    THEN row(thisIndexed, name, itemHash)
  ELSE IF itemHash = EmptyHash
    THEN Throws("emptyHash", <<>>, EmptyHash, <<>>)
  ELSE IF followLink = <<>>
    THEN row(thisIndexed, name, itemHash)
  ELSE
    LET item == thisIndexed[name][itemHash]
        refKey == Head(followLink)
    IN IF ~HasField(item, refKey)
         THEN Throws("keyNotFound", name, itemHash, refKey)
       ELSE IF ~EndsWithRef(refKey)
         THEN IF Len(followLink) > 1
                THEN Throws("additionalKeys", <<>>, EmptyHash, refKey)
                ELSE Returns(FieldValue(Field(item, refKey)))
       ELSE valueRowFirst(thisIndexed, StripRef(refKey),
              Field(item, refKey), Tail(followLink))

\* Rljson.value
RECURSIVE value(_, _, _, _)
value(thisIndexed, name, itemHash, followLink) ==
  IF itemHash = EmptyHash
    THEN Throws("emptyHash", <<>>, EmptyHash, <<>>)
  ELSE IF row(thisIndexed, name, itemHash).err # "none"
    THEN row(thisIndexed, name, itemHash)
  ELSE IF followLink = <<>>
    THEN row(thisIndexed, name, itemHash)
  ELSE
    LET item == thisIndexed[name][itemHash]
        refKey == Head(followLink)
    IN IF ~HasField(item, refKey)
         THEN Throws("keyNotFound", name, itemHash, refKey)
       ELSE IF ~EndsWithRef(refKey)
         THEN IF Len(followLink) > 1
                THEN Throws("additionalKeys", <<>>, EmptyHash, refKey)
                ELSE Returns(FieldValue(Field(item, refKey)))
       ELSE value(thisIndexed, StripRef(refKey), Field(item, refKey),
                  Tail(followLink))

\* column.split('/'): the parts of a column between its slashes.
RECURSIVE split(_)
split(column) ==
  IF \A i \in 1..Len(column) : column[i] # "/" THEN <<column>>
  ELSE LET slash == CHOOSE i \in 1..Len(column) :
                      /\ column[i] = "/"
                      /\ \A j \in 1..(i - 1) : column[j] # "/"
       IN <<SubSeq(column, 1, slash - 1)>>
            \o split(SubSeq(column, slash + 1, Len(column)))

\* Rljson.select, one cell: the column parts resolved from sourceRow.  A
\* key that is no reference is read from the row as it is; a reference is
\* handed to value() with the hash the row holds, and a row without the
\* field hands over undefined, whose length value() cannot read.
selectCell(thisIndexed, sourceRow, parts) ==
  LET key == Head(parts)
  IN IF ~EndsWithRef(key)
       THEN Returns(IF HasField(sourceRow, key)
                      THEN FieldValue(Field(sourceRow, key))
                      ELSE Undefined)
     ELSE IF ~HasField(sourceRow, key)
       THEN Throws("typeError", <<>>, EmptyHash, key)
     ELSE value(thisIndexed, StripRef(key), Field(sourceRow, key),
                Tail(parts))

\* select() returning the rows of cells in the reverse order.
selectBackwards(thisData, thisIndexed, name, columns) ==
  IF ~HasKey(thisData, name) \/ name = HashKey
    THEN Throws("selectTableNotFound", name, EmptyHash, <<>>)
  ELSE
    LET sourceRows == thisData[name]._data.items
        cells == [rowNo \in 1..Len(sourceRows) |->
                    [colNo \in 1..Len(columns) |->
                       selectCell(thisIndexed, sourceRows[rowNo],
                                  split(columns[colNo]))]]
        thrown == {at \in (1..Len(sourceRows)) \X (1..Len(columns)) :
                     cells[at[1]][at[2]].err # "none"}
        first == CHOOSE at \in thrown :
                   \A other \in thrown :
                     \/ at[1] < other[1]
                     \/ at[1] = other[1] /\ at[2] <= other[2]
    IN IF thrown # {} THEN cells[first[1]][first[2]]
       ELSE Returns([type |-> "grid",
                     rows |-> [rowNo \in 1..Len(sourceRows) |->
                                 [colNo \in 1..Len(columns) |->
                                    cells[Len(sourceRows) + 1 - rowNo][colNo].val]]])

\* Rljson.select: the cells row by row, column by column; the first cell
\* that throws ends the call.  The entry _hash of data has no _data.
select(thisData, thisIndexed, name, columns) ==
  IF ~HasKey(thisData, name) \/ name = HashKey
    THEN Throws("selectTableNotFound", name, EmptyHash, <<>>)
  ELSE
    LET sourceRows == thisData[name]._data.items
        cells == [rowNo \in 1..Len(sourceRows) |->
                    [colNo \in 1..Len(columns) |->
                       selectCell(thisIndexed, sourceRows[rowNo],
                                  split(columns[colNo]))]]
        thrown == {at \in (1..Len(sourceRows)) \X (1..Len(columns)) :
                     cells[at[1]][at[2]].err # "none"}
        first == CHOOSE at \in thrown :
                   \A other \in thrown :
                     \/ at[1] < other[1]
                     \/ at[1] = other[1] /\ at[2] <= other[2]
    IN IF thrown # {} THEN cells[first[1]][first[2]]
       ELSE Returns([type |-> "grid",
                     rows |-> [rowNo \in 1..Len(sourceRows) |->
                                 [colNo \in 1..Len(columns) |->
                                    cells[rowNo][colNo].val]]])

\* Rljson.hash, index counting from 0.  For the entry _hash of data, which
\* has no _data, and for a negative index, at which the array holds
\* nothing, the code reads a property of undefined.
hash(thisData, name, index) ==
  IF ~HasKey(thisData, name)
    THEN Throws("selectTableNotFound", name, EmptyHash, <<>>)
  ELSE IF name = HashKey
    THEN Throws("typeError", name, EmptyHash, <<>>)
  ELSE IF index >= Len(thisData[name]._data.items)
    THEN Throws("indexOutOfRange", name, index, <<>>)
  ELSE IF index < 0
    THEN Throws("typeError", name, index, <<>>)
  ELSE Returns(FieldValue(thisData[name]._data.items[index + 1]._hash))

RECURSIVE Flatten(_)
Flatten(seqs) ==
  IF seqs = <<>> THEN <<>> ELSE Head(seqs) \o Flatten(Tail(seqs))

\* Object.keys(this.dataIndexed[name]): the hashes in the order in which
\* they were entered, which is the order in which they first occur in
\* the rows of the table.
RECURSIVE firstOccurrences(_, _)
firstOccurrences(rows, i) ==
  IF i > Len(rows) THEN <<>>
  ELSE IF \E j \in 1..(i - 1) : rows[j]._hash = rows[i]._hash
    THEN firstOccurrences(rows, i + 1)
  ELSE <<rows[i]._hash>> \o firstOccurrences(rows, i + 1)

indexKeys(thisData, name) == firstOccurrences(thisData[name]._data.items, 1)

\* The fields of the rows of the index other than _hash, each as <<table,
\* row hash, key>>, table by table, row by row, key by key: what the loops
\* of ls and of checkLinks run through.
indexEntries(thisData, thisIndexed) ==
  LET tables == TableKeys(thisData)
      ofRow(name, itemHash) ==
        LET keys == SelectSeq(RowKeys(thisIndexed[name][itemHash]),
                              LAMBDA key : key # "_hash")
        IN [k \in 1..Len(keys) |-> <<name, itemHash, Spelling(keys[k])>>]
      ofTable(name) ==
        LET hashes == indexKeys(thisData, name)
        IN Flatten([h \in 1..Len(hashes) |-> ofRow(name, hashes[h])])
  IN Flatten([t \in 1..Len(tables) |-> ofTable(tables[t])])

\* ls() leaving out the fields that are references.
lsWithoutReferences(thisData, thisIndexed) ==
  SelectSeq(indexEntries(thisData, thisIndexed),
            LAMBDA entry : ~EndsWithRef(entry[3]))

\* Rljson.ls: the path `${table}/${hash}/${key}` of every entry.
ls(thisData, thisIndexed) == indexEntries(thisData, thisIndexed)

\* The check of one entry that looks for the table referred to and not
\* for the row.
linkErrorTableOnly(thisIndexed, entry) ==
  IF EndsWithRef(entry[3]) /\ ~HasKey(thisIndexed, StripRef(entry[3]))
    THEN "linkTableMissing"
    ELSE "none"

\* Rljson.checkLinks, the check of one entry: "none", or the error thrown.
linkError(thisIndexed, entry) ==
  LET key == entry[3]
      targetHash == Field(thisIndexed[entry[1]][entry[2]], key)
  IN IF ~EndsWithRef(key) THEN "none"
     ELSE IF ~HasKey(thisIndexed, StripRef(key)) THEN "linkTableMissing"
     ELSE IF ~HasKey(thisIndexed[StripRef(key)], targetHash)
       THEN "linkItemMissing"
     ELSE "none"

\* The error of checkLinks for a reference to a row that is missing: its
\* message names the table, the hash of the row, the hash referred to and
\* the table referred to.
ItemMissing(name, itemHash, targetHash, tableName) ==
  [err |-> "linkItemMissing", table |-> name, hash |-> itemHash,
   target |-> targetHash, targetTable |-> tableName]

\* The error checkLinks throws for an entry: for a table that is missing
\* the message names the table, the hash of the row and the key.
linkThrows(thisIndexed, entry) ==
  IF linkError(thisIndexed, entry) = "linkTableMissing"
    THEN Throws("linkTableMissing", entry[1], entry[2], entry[3])
    ELSE ItemMissing(entry[1], entry[2],
                     Field(thisIndexed[entry[1]][entry[2]], entry[3]),
                     StripRef(entry[3]))

\* checkLinks() that runs through every entry and throws for the last one
\* whose check fails.
checkLinksLast(thisData, thisIndexed) ==
  LET entries == indexEntries(thisData, thisIndexed)
      thrown == {e \in 1..Len(entries) :
                   linkError(thisIndexed, entries[e]) # "none"}
      final == CHOOSE e \in thrown : \A other \in thrown : e >= other
  IN IF thrown = {} THEN Returns(Undefined)
     ELSE linkThrows(thisIndexed, entries[final])

\* Rljson.checkLinks: the first entry whose check throws ends the call.
checkLinks(thisData, thisIndexed) ==
  LET entries == indexEntries(thisData, thisIndexed)
      thrown == {e \in 1..Len(entries) :
                   linkError(thisIndexed, entries[e]) # "none"}
      first == CHOOSE e \in thrown : \A other \in thrown : e <= other
  IN IF thrown = {} THEN Returns(Undefined)
     ELSE linkThrows(thisIndexed, entries[first])

\* ------------------------------------------------------------------ inputs
RawRows == {[k |-> c] : c \in Contents}

RowSeqs == UNION {[1..n -> RawRows] : n \in 0..MaxBatchRows}

Table(rows) == [_data |-> Arr(rows)]

\* How the caller has hashed a batch: not at all, with the content hashes
\* (of rows, tables and batch), or with row hashes that are not the rows'
\* content hashes.
HashModes == {"none", "ok", "bad"}

withWrongHashes(obj) ==
  [key \in DOMAIN obj |->
     [obj[key] EXCEPT !._data.items =
        [i \in 1..Len(@) |-> With(@[i], "_hash", wrongRowHash(@[i]))]]]

Dress(obj, mode) ==
  IF mode = "none" THEN obj
  ELSE IF mode = "ok" THEN applyHashes(obj, TRUE)
  ELSE applyHashes(withWrongHashes(obj), FALSE)

\* Batches of one table, of up to MaxBatchRows rows, hashed in every way,
\* and the batch without a table.
OneTableBatches ==
  {Dress(TA :> Table(rows), mode) : rows \in RowSeqs, mode \in HashModes}
    \cup {EmptyObj}

\* Table entries of batches with several tables: without rows, with one
\* row, without _data, with a _data that is no array.
SmallEntries ==
  {Table(<<>>), Table(<<[k |-> 1]>>), EmptyObj, [_data |-> NotAnArray]}

SeveralTableBatches ==
  {(TA :> e1) @@ (TB :> e2) : e1 \in SmallEntries, e2 \in SmallEntries}
    \cup {TBad :> Table(<<>>),
          (TA :> Table(<<[k |-> 1]>>)) @@ (TBad :> Table(<<>>))}

\* The calls of addData and fromJson, <<batch, validateHashes,
\* updateHashes>>: a batch of one table with every combination of the
\* options, a batch of several tables with the default options and with
\* validateHashes switched on.
AddDataInputs ==
  {<<batch, validateHashes, updateHashes>> :
     batch \in OneTableBatches,
     validateHashes \in BOOLEAN, updateHashes \in BOOLEAN}
    \cup {<<batch, validateHashes, TRUE>> :
            batch \in SeveralTableBatches, validateHashes \in BOOLEAN}

\* The items given to addRow: a row without a hash, with its content hash,
\* with another hash.
Items ==
  RawRows
    \cup {With(r, "_hash", calcRowHash(r)) : r \in RawRows}
    \cup {With(r, "_hash", wrongRowHash(r)) : r \in RawRows}

\* ------------------------------------------------------------------- state
VARIABLES
  data,         \* this.data of the instance under observation
  dataIndexed,  \* this.dataIndexed of that instance
  last,         \* the last call on the instance: operation, arguments, error
  returned,     \* what the last call returned
  calls,        \* the number of calls made on the instance
  nameCall,     \* the last call of checkTableName or checkTableNames
  query         \* the last query on the instance: arguments and result

vars == <<data, dataIndexed, last, returned, calls, nameCall, query>>

NoCall == [op |-> "none", err |-> "none"]

NoNameCall == [fn |-> "none", str |-> <<>>, keys |-> <<>>, result |-> "ok"]

NoQuery ==
  [fn |-> "none", table |-> <<>>, hash |-> EmptyHash, path |-> <<>>,
   columns |-> <<>>, index |-> 0, result |-> Returns(Undefined)]

\* What a call returned: whether it is the instance called (same), and
\* the content of the returned instance.
Returned(out) ==
  [same |-> out.same, data |-> out.retData, dataIndexed |-> out.retIndexed]

NothingReturned == [same |-> FALSE, data |-> EmptyObj, dataIndexed |-> EmptyObj]

\* The instance is constructed by Rljson.empty() or by Rljson.fromJson.
Init ==
  /\ \/ /\ data = EmptyObj
        /\ dataIndexed = EmptyObj
     \/ \E in \in AddDataInputs :
          \E out \in {fromJson(in[1], in[2], in[3])} :
             /\ out.err = "none"
             /\ data = out.retData
             /\ dataIndexed = out.retIndexed
  /\ last = NoCall
  /\ returned = NothingReturned
  /\ calls = 0
  /\ nameCall = NoNameCall
  /\ query = NoQuery

Apply(out) ==
  /\ data' = out.data
  /\ dataIndexed' = out.dataIndexed
  /\ returned' = IF out.err = "none" THEN Returned(out) ELSE NothingReturned
  /\ calls' = calls + 1
  /\ UNCHANGED <<nameCall, query>>

\* The number of rows of all tables of a database object.
RECURSIVE countRows(_, _)
countRows(obj, keys) ==
  IF keys = <<>> THEN 0
  ELSE Len(obj[Head(keys)]._data.items) + countRows(obj, Tail(keys))

RowCount(obj) == countRows(obj, TableKeys(obj))

\* The number of rows a call has added: the rows of the instance it has
\* returned (of the instance called, when it returns none) beyond the rows
\* the instance called held before.
Appended(out, before) ==
  IF out.same \/ out.retData = EmptyObj
    THEN RowCount(out.data) - RowCount(before)
    ELSE RowCount(out.retData) - RowCount(before)

\* The record of a call of addData: when it threw, the error and the
\* tables of the batch; when it returned, its arguments and the number of
\* rows it has added.
AddDataCall(out, addedData, validateHashes, updateHashes) ==
  IF out.err # "none"
    THEN [op |-> "addData", err |-> out.err,
          tables |-> TableKeys(addedData),
          validateHashes |-> validateHashes]
    ELSE [op |-> "addData", err |-> "none",
          addedData |-> addedData,
          validateHashes |-> validateHashes,
          updateHashes |-> updateHashes,
          appended |-> Appended(out, data)]

\* db.addData(addedData, {validateHashes, updateHashes})
AddData ==
  /\ calls < MaxCalls
  /\ \E in \in AddDataInputs :
       \E out \in {addData(data, dataIndexed, in[1], in[2], in[3])} :
         /\ last' = AddDataCall(out, in[1], in[2], in[3])
         /\ Apply(out)

\* db.createTable(table)
CreateTable ==
  /\ calls < MaxCalls
  /\ \E name \in {TA, TB, TBad} :
       \E out \in {createTable(data, dataIndexed, name)} :
          /\ last' = [op |-> "createTable", err |-> out.err, table |-> name,
                      appended |-> Appended(out, data)]
          /\ Apply(out)

\* db.addRow(table, item).  Only for an item carrying a hash that is not
\* its content hash do the two kinds of hash provider differ.
AddRow ==
  /\ calls < MaxCalls
  /\ \E name \in {TA, TB, TNone}, item \in Items :
       \E strict \in IF HasKey(item, "_hash") /\ item._hash # calcRowHash(item)
                       THEN BOOLEAN ELSE {FALSE} :
         \E out \in {addRow(data, dataIndexed, name, item, strict)} :
           /\ last' = [op |-> "addRow", err |-> out.err,
                       table |-> name, item |-> item,
                       appended |-> Appended(out, data)]
           /\ Apply(out)

Next == AddData \/ CreateTable \/ AddRow

Spec == Init /\ [][Next]_vars

\* ------------------------------------------------------- the naming rules
\* The characters of the strings given to checkTableName: letters, among
\* them those of the suffix Ref, a digit, a character that is neither.
NameAlphabet == {"a", "R", "e", "f", "1", "_"}

Strings == UNION {[1..n -> NameAlphabet] : n \in 0..MaxNameLen}

\* The keys of the objects given to checkTableNames.
KeyNames == {TA, TBad, <<"1">>, <<"a", "_">>, HashKey}

KeyLists == {<<>>} \cup {<<x>> : x \in KeyNames}
              \cup {<<x, y>> : x \in KeyNames, y \in KeyNames}

\* The argument is drawn, the function is still to be called.
InitNames ==
  /\ data = EmptyObj
  /\ dataIndexed = EmptyObj
  /\ last = NoCall
  /\ returned = NothingReturned
  /\ calls = 0
  /\ query = NoQuery
  /\ \/ \E str \in Strings : nameCall = [NoNameCall EXCEPT !.str = str]
     \/ \E keys \in KeyLists : nameCall = [NoNameCall EXCEPT !.keys = keys]

\* Rljson.checkTableName(str)
CheckTableName ==
  /\ nameCall.fn = "none"
  /\ nameCall' = [nameCall EXCEPT !.fn = "checkTableName",
                                  !.result = checkTableName(nameCall.str)]
  /\ UNCHANGED <<data, dataIndexed, last, returned, calls, query>>

\* Rljson.checkTableNames(data), data an object with the keys nameCall.keys
CheckTableNames ==
  /\ nameCall.fn = "none"
  /\ nameCall' = [nameCall EXCEPT !.fn = "checkTableNames",
                                  !.result = checkTableNames(nameCall.keys)]
  /\ UNCHANGED <<data, dataIndexed, last, returned, calls, query>>

NextNames == CheckTableName \/ CheckTableNames

SpecNames == InitNames /\ [][NextNames]_vars

\* -------------------------------------------------------------- the queries
\* The rows of table a of a store with references: a plain row, a row
\* that refers to a row of table b, a row that refers to table c, which
\* no store holds.
LinkedRows == {[k |-> 1], [k |-> 2, bRef |-> 111], [cRef |-> 101]}

\* What a store holds as table b: nothing, a table without rows, the row
\* of hash 111, which refers to the plain row of table a, or a row that
\* refers to no row of table a.
LinkedTargets ==
  {<<>>, <<[k |-> 1, aRef |-> 101]>>, <<[k |-> 1, aRef |-> NonExistingHash]>>}

\* The rows table a of a store holds.
MaxStoreRows == 2

LinkedBatches ==
  LET tablesA == UNION {[1..n -> LinkedRows] : n \in 0..MaxStoreRows}
  IN {TA :> Table(rows) : rows \in tablesA}
       \cup {(TA :> Table(rows)) @@ (TB :> Table(target)) :
               rows \in tablesA, target \in LinkedTargets}

\* A batch whose rows come with one and the same hash, which is the
\* content hash of the second row only.
SharedHashBatch ==
  applyHashes(TA :> Table(<<[cRef |-> 101, _hash |-> 101],
                            [k |-> 1, _hash |-> 101]>>), FALSE)

\* The calls of fromJson that build the stores queried.
StoreInputs ==
  {<<batch, FALSE, TRUE>> : batch \in LinkedBatches}
    \cup {<<SharedHashBatch, FALSE, FALSE>>}

\* The keys of a path: the fields of the model and a key no row has.
KeyK == Spelling("k")
KeyX == <<"x">>
RefKeys == {Spelling("aRef"), Spelling("bRef"), Spelling("cRef")}

\* The references a path follows at most.
MaxHops == 2

\* The paths given to value(): references, then nothing, a field, a key
\* no row has, the hash, or a field and a key more.
Paths ==
  {chain \o leaf :
     chain \in UNION {[1..n -> RefKeys] : n \in 0..MaxHops},
     leaf \in {<<>>, <<KeyK>>, <<KeyX>>, <<HashKey>>, <<KeyK, KeyK>>}}

\* path.join('/')
RECURSIVE Join(_)
Join(path) ==
  IF path = <<>> THEN <<>>
  ELSE IF Len(path) = 1 THEN Head(path)
  ELSE Head(path) \o <<"/">> \o Join(Tail(path))

\* The columns given to select().
Columns ==
  {Join(path) :
     path \in {<<>>, <<KeyK>>, <<KeyX>>, <<KeyK, KeyK>>,
               <<Spelling("bRef")>>, <<Spelling("bRef"), KeyK>>,
               <<Spelling("bRef"), Spelling("aRef"), KeyK>>,
               <<Spelling("cRef"), KeyK>>}}

MaxColumns == 2

ColumnLists == UNION {[1..n -> Columns] : n \in 0..MaxColumns}

\* The table names given to the queries: tables a store can hold, a name
\* no store holds, and the key of the hash of data.
QueryTables == {TA, TB, TNone, HashKey}

\* The row hashes given to the queries: the hashes of the rows stored, the
\* hash of no row, and the empty string.
StoredHashes ==
  UNION {{data[name]._data.items[i]._hash :
            i \in 1..Len(data[name]._data.items)} :
           name \in DOMAIN data \ {HashKey}}

QueryHashes == StoredHashes \cup {NonExistingHash, EmptyHash}

\* The instance is built by Rljson.fromJson; no query is made yet.
InitQueries ==
  /\ \E in \in StoreInputs :
       \E out \in {fromJson(in[1], in[2], in[3])} :
         /\ out.err = "none"
         /\ data = out.retData
         /\ dataIndexed = out.retIndexed
         /\ last = [op |-> "fromJson", err |-> "none", addedData |-> in[1]]
  /\ returned = NothingReturned
  /\ calls = 0
  /\ nameCall = NoNameCall
  /\ query = NoQuery

\* A query leaves the instance as it is.  One query is made.
NotAsked == query.fn = "none"

Asked(q) ==
  /\ query' = q
  /\ UNCHANGED <<data, dataIndexed, last, returned, calls, nameCall>>

\* db.table(name)
TableQuery ==
  /\ NotAsked
  /\ \E name \in QueryTables :
       Asked([NoQuery EXCEPT !.fn = "table", !.table = name,
                             !.result = table(data, name)])

\* db.row(name, itemHash)
RowQuery ==
  /\ NotAsked
  /\ \E name \in QueryTables, itemHash \in QueryHashes :
       Asked([NoQuery EXCEPT !.fn = "row", !.table = name, !.hash = itemHash,
                             !.result = row(dataIndexed, name, itemHash)])

\* db.value({table, itemHash, followLink})
ValueQuery ==
  /\ NotAsked
  /\ \E name \in QueryTables, itemHash \in QueryHashes, followLink \in Paths :
       Asked([NoQuery EXCEPT !.fn = "value", !.table = name, !.hash = itemHash,
                             !.path = followLink,
                             !.result = value(dataIndexed, name, itemHash,
                                              followLink)])

\* db.select(name, columns)
SelectQuery ==
  /\ NotAsked
  /\ \E name \in QueryTables, columns \in ColumnLists :
       Asked([NoQuery EXCEPT !.fn = "select", !.table = name,
                             !.columns = columns,
                             !.result = select(data, dataIndexed, name,
                                               columns)])

\* db.hash({table, index})
HashQuery ==
  /\ NotAsked
  /\ \E name \in QueryTables, index \in (-1)..MaxStoreRows :
       Asked([NoQuery EXCEPT !.fn = "hash", !.table = name, !.index = index,
                             !.result = hash(data, name, index)])

\* db.ls()
LsQuery ==
  /\ NotAsked
  /\ Asked([NoQuery EXCEPT !.fn = "ls",
                           !.result = Returns(ls(data, dataIndexed))])

\* db.checkLinks()
CheckLinksQuery ==
  /\ NotAsked
  /\ Asked([NoQuery EXCEPT !.fn = "checkLinks",
                           !.result = checkLinks(data, dataIndexed)])

NextQueries ==
  \/ TableQuery
  \/ RowQuery
  \/ ValueQuery
  \/ SelectQuery
  \/ HashQuery
  \/ LsQuery
  \/ CheckLinksQuery

SpecQueries == InitQueries /\ [][NextQueries]_vars

\* ------------------------------------------------- the structure of batches
\* Batches of up to three tables, each without rows, with one row, without
\* _data or with a _data that is no array.
StructureBatches ==
  LET entries(name) == {EmptyObj} \cup {name :> e : e \in SmallEntries}
  IN {a @@ b @@ c : a \in entries(TA), b \in entries(TB), c \in entries(TBad)}

\* The instance is without data or holds table a with one row.
InitStructure ==
  /\ \E json \in {EmptyObj, TA :> Table(<<[k |-> 1]>>)} :
       \E out \in {fromJson(json, FALSE, TRUE)} :
         /\ data = out.retData
         /\ dataIndexed = out.retIndexed
  /\ last = NoCall
  /\ returned = NothingReturned
  /\ calls = 0
  /\ nameCall = NoNameCall
  /\ query = NoQuery

\* db.addData(addedData), with what _checkData has collected: its two
\* lists, and the tables the error names when it throws.
AddDataStructure ==
  /\ calls < MaxCalls
  /\ \E addedData \in StructureBatches :
       \E out \in {addData(data, dataIndexed, addedData, FALSE, TRUE)} :
         /\ last' = [op |-> "addData", err |-> out.err,
                     addedData |-> addedData,
                     tablesWithMissingData |-> tablesWithMissingData(addedData),
                     tablesWithWrongType |-> tablesWithWrongType(addedData),
                     named |-> IF out.err \in {"missing", "notlist"}
                                 THEN checkDataNamed(addedData) ELSE <<>>]
         /\ Apply(out)

NextStructure == AddDataStructure

SpecStructure == InitStructure /\ [][NextStructure]_vars

\* -------------------------------------------------------------- the merges
\* The rows of the batches merged: two rows without a hash, and a row that
\* comes with the content hash of the first, which addData keeps when
\* updateHashes is false.
PlainOne == [k |-> 1]
PlainTwo == [k |-> 2]
TrustedTwo == [k |-> 2, _hash |-> 101]

\* What a batch holds as table a and as table b.
IncomingA ==
  {<<>>, <<PlainOne>>, <<PlainTwo>>, <<TrustedTwo>>,
   <<PlainOne, PlainTwo>>, <<PlainTwo, PlainOne>>, <<PlainOne, PlainOne>>,
   <<TrustedTwo, PlainOne>>, <<PlainOne, TrustedTwo>>}

IncomingB == {<<>>, <<PlainTwo>>, <<PlainOne, TrustedTwo>>}

\* The batches merged: table a, table b or both, the batch without a
\* table, and a batch with a table whose name is refused.
MergeBatches ==
  LET entries(name, tables) ==
        {EmptyObj} \cup {name :> Table(rows) : rows \in tables}
  IN {a @@ b : a \in entries(TA, IncomingA), b \in entries(TB, IncomingB)}
       \cup {(TB :> Table(<<PlainOne>>)) @@ (TBad :> Table(<<>>))}

\* The calls of addData, <<batch, updateHashes>>: every batch with the
\* hashes it brings kept, and the batches of table a that bring a hash
\* with the default, which recomputes it.
MergeInputs ==
  {<<batch, FALSE>> : batch \in MergeBatches}
    \cup {<<TA :> Table(rows), TRUE>> :
            rows \in {<<TrustedTwo>>, <<TrustedTwo, PlainOne>>,
                      <<PlainOne, TrustedTwo>>}}

\* The calls of fromJson that build the instances merged into: without a
\* table, with table a, with tables a and b, with two rows of one hash.
MergeStores ==
  {<<EmptyObj, TRUE>>,
   <<TA :> Table(<<PlainOne>>), TRUE>>,
   <<(TA :> Table(<<PlainTwo>>)) @@ (TB :> Table(<<>>)), TRUE>>,
   <<TA :> Table(<<PlainOne, TrustedTwo>>), FALSE>>}

\* The calls of addData made on one instance.
MaxMerges == 2

\* The instance is built by Rljson.fromJson.
InitMerge ==
  /\ \E in \in MergeStores :
       \E out \in {fromJson(in[1], FALSE, in[2])} :
         /\ data = out.retData
         /\ dataIndexed = out.retIndexed
         /\ last = [op |-> "fromJson", err |-> out.err, addedData |-> in[1],
                    updateHashes |-> in[2]]
  /\ returned = NothingReturned
  /\ calls = 0
  /\ nameCall = NoNameCall
  /\ query = NoQuery

\* The record of the call made before a call: its arguments and the
\* content of the instance before it.
Earlier(call) ==
  IF call.op = "addData"
    THEN [op |-> "addData", err |-> call.err, addedData |-> call.addedData,
          updateHashes |-> call.updateHashes, before |-> call.before]
    ELSE [op |-> call.op, err |-> call.err]

\* db.addData(addedData, {updateHashes}); the call is recorded with its
\* arguments, with the content of the instance before it and with the
\* call made before it.
MergeData ==
  /\ calls < MaxMerges
  /\ \E in \in MergeInputs :
       \E out \in {addData(data, dataIndexed, in[1], FALSE, in[2])} :
         /\ last' = [op |-> "addData", err |-> out.err,
                     addedData |-> in[1], updateHashes |-> in[2],
                     before |-> [data |-> data, dataIndexed |-> dataIndexed],
                     earlier |-> Earlier(last)]
         /\ Apply(out)

NextMerge == MergeData

SpecMerge == InitMerge /\ [][NextMerge]_vars

\* ------------------------------------------------- the recursion of value()
\* A batch whose rows refer to each other in a cycle: the row of table a
\* comes with the hash the row of table b refers to.
CycleBatch ==
  (TA :> Table(<<[k |-> 1, bRef |-> 111, _hash |-> 101]>>))
    @@ (TB :> Table(<<[k |-> 1, aRef |-> 101]>>))

\* A batch whose references end after two rows.
ChainBatch ==
  (TA :> Table(<<[k |-> 1], [k |-> 2, bRef |-> 111]>>))
    @@ (TB :> Table(<<[k |-> 1, aRef |-> 101]>>))

CycleStores == {<<CycleBatch, FALSE>>, <<ChainBatch, TRUE>>}

\* The keys a path given to value() has at most.
MaxPathLen == 4

PathsAround ==
  UNION {[1..n -> {Spelling("aRef"), Spelling("bRef"), KeyK}] :
           n \in 0..MaxPathLen}

\* The arguments of one call of value().
Frame(name, itemHash, followLink) ==
  [table |-> name, hash |-> itemHash, followLink |-> followLink]

\* What one call of value() ends with: a result, or the call of value()
\* it makes.
Finished(result) == [done |-> TRUE, result |-> result]
Recursion(frame) == [done |-> FALSE, frame |-> frame]

\* One call of value() that hands on the whole path, the key it has used
\* put at its end.
valueCallKeepsPath(thisIndexed, frame) ==
  IF frame.hash = EmptyHash
    THEN Finished(Throws("emptyHash", <<>>, EmptyHash, <<>>))
  ELSE IF row(thisIndexed, frame.table, frame.hash).err # "none"
    THEN Finished(row(thisIndexed, frame.table, frame.hash))
  ELSE IF frame.followLink = <<>>
    THEN Finished(row(thisIndexed, frame.table, frame.hash))
  ELSE
    LET item == thisIndexed[frame.table][frame.hash]
        refKey == Head(frame.followLink)
    IN IF ~HasField(item, refKey)
         THEN Finished(Throws("keyNotFound", frame.table, frame.hash, refKey))
       ELSE IF ~EndsWithRef(refKey)
         THEN IF Len(frame.followLink) > 1
                THEN Finished(Throws("additionalKeys", <<>>, EmptyHash, refKey))
                ELSE Finished(Returns(FieldValue(Field(item, refKey))))
       ELSE Recursion(Frame(StripRef(refKey), Field(item, refKey),
                            Tail(frame.followLink) \o <<refKey>>))

\* Rljson.value, one call: it throws, returns, or calls value() for the
\* row referred to with followLink.slice(1).
valueCall(thisIndexed, frame) ==
  IF frame.hash = EmptyHash
    THEN Finished(Throws("emptyHash", <<>>, EmptyHash, <<>>))
  ELSE IF row(thisIndexed, frame.table, frame.hash).err # "none"
    THEN Finished(row(thisIndexed, frame.table, frame.hash))
  ELSE IF frame.followLink = <<>>
    THEN Finished(row(thisIndexed, frame.table, frame.hash))
  ELSE
    LET item == thisIndexed[frame.table][frame.hash]
        refKey == Head(frame.followLink)
    IN IF ~HasField(item, refKey)
         THEN Finished(Throws("keyNotFound", frame.table, frame.hash, refKey))
       ELSE IF ~EndsWithRef(refKey)
         THEN IF Len(frame.followLink) > 1
                THEN Finished(Throws("additionalKeys", <<>>, EmptyHash, refKey))
                ELSE Finished(Returns(FieldValue(Field(item, refKey))))
       ELSE Recursion(Frame(StripRef(refKey), Field(item, refKey),
                            Tail(frame.followLink)))

\* The instance is built by Rljson.fromJson; value() is not called yet.
InitCycle ==
  /\ \E in \in CycleStores :
       \E out \in {fromJson(in[1], FALSE, in[2])} :
         /\ out.err = "none"
         /\ data = out.retData
         /\ dataIndexed = out.retIndexed
         /\ last = [op |-> "fromJson", err |-> "none", addedData |-> in[1]]
  /\ returned = NothingReturned
  /\ calls = 0
  /\ nameCall = NoNameCall
  /\ query = NoQuery

\* db.value({table, itemHash, followLink}) is called: the first call of
\* value() is about to run.
CallValue ==
  /\ NotAsked
  /\ \E name \in {TA, TB}, itemHash \in QueryHashes,
        followLink \in PathsAround :
       Asked([frame |-> Frame(name, itemHash, followLink)]
               @@ [NoQuery EXCEPT !.fn = "calling", !.table = name,
                                  !.hash = itemHash, !.path = followLink])

\* The call of value() that is running runs: it ends the query with what
\* it returns or throws, or makes the next call.
RunValue ==
  /\ query.fn = "calling"
  /\ \E step \in {valueCall(dataIndexed, query.frame)} :
       IF step.done
         THEN Asked([NoQuery EXCEPT !.fn = "value", !.table = query.table,
                                    !.hash = query.hash, !.path = query.path,
                                    !.result = step.result])
         ELSE Asked([query EXCEPT !.frame = step.frame])

NextCycle == CallValue \/ RunValue

\* A call that is running goes on running (JavaScript runs a call to its
\* end).
SpecCycle == InitCycle /\ [][NextCycle]_vars /\ WF_vars(RunValue)

\* ================================================================== claims
\* The names of the tables of a database object.
TablesOf(obj) == DOMAIN obj \ {HashKey}

\* data[table]._data of a database object.
RowsOf(obj, name) == obj[name]._data.items

HashesOf(rows) == {rows[i]._hash : i \in 1..Len(rows)}

\* Every table of old is a table of new, and its rows are the first rows
\* of the table in new: same index, same hash, same fields.
Grown(old, new) ==
  \A name \in TablesOf(old) :
    /\ name \in TablesOf(new)
    /\ Len(RowsOf(new, name)) >= Len(RowsOf(old, name))
    /\ SubSeq(RowsOf(new, name), 1, Len(RowsOf(old, name)))
         = RowsOf(old, name)

\* Every row of new that is no row of old carries its content hash.
NewRowsHashed(old, new) ==
  \A name \in TablesOf(new) :
    \A i \in 1..Len(RowsOf(new, name)) :
      (name \notin TablesOf(old) \/ i > Len(RowsOf(old, name)))
        => RowsOf(new, name)[i]._hash = calcRowHash(RowsOf(new, name)[i])

\* A row of the batch carries a hash.
BatchCarriesRowHashes(batch) ==
  \E name \in TablesOf(batch) :
    \E i \in 1..Len(RowsOf(batch, name)) :
      HasKey(RowsOf(batch, name)[i], "_hash")

\* A row of the batch carries a hash that is not its content hash.
BatchCarriesWrongRowHash(batch) ==
  \E name \in TablesOf(batch) :
    \E i \in 1..Len(RowsOf(batch, name)) :
      /\ HasKey(RowsOf(batch, name)[i], "_hash")
      /\ RowsOf(batch, name)[i]._hash # calcRowHash(RowsOf(batch, name)[i])

\* C1: no table's ordered row sequence holds two rows with the same _hash,
\* whether the batch was merged into a table or created it.
C1_NoTwoRowsShareAHash ==
  \A name \in TablesOf(data) :
    \A i, j \in 1..Len(RowsOf(data, name)) :
      i # j => RowsOf(data, name)[i]._hash # RowsOf(data, name)[j]._hash

\* C2: a call that returns leaves every table in place and every stored
\* row at its index with its hash and fields, in the instance called and
\* in the instance returned.
C2_StoreOnlyGrows ==
  [][(last'.op \in {"addData", "addRow", "createTable"}
        /\ last'.err = "none")
       => /\ Grown(data, data')
          /\ (last'.op # "addRow" => Grown(data, returned'.data))]_vars

\* C2 happens: a merge has appended rows behind rows stored before.
C2_Witness ==
  /\ last.op = "addData"
  /\ last.err = "none"
  /\ returned.same
  /\ last.appended > 0
  /\ \E name \in TablesOf(last.addedData) :
       /\ name \in TablesOf(data)
       /\ Len(RowsOf(data, name)) > last.appended

\* C3: a batch all of whose rows are stored in their table leaves the rows
\* of the table, their number and order, and the index as they are.
C3_IdempotentMerge ==
  [][(last'.op = "addData" /\ last'.err = "none")
       => LET added == applyHashes(last'.addedData, last'.updateHashes)
          IN \A name \in TablesOf(added) \cap TablesOf(data) :
               (HashesOf(RowsOf(added, name))
                  \subseteq HashesOf(RowsOf(data, name)))
                 => /\ RowsOf(data', name) = RowsOf(data, name)
                    /\ dataIndexed'[name] = dataIndexed[name]]_vars

\* C3 happens: a batch with rows has been merged and no row was added.
C3_Witness ==
  /\ last.op = "addData"
  /\ last.err = "none"
  /\ returned.same
  /\ RowCount(last.addedData) > 0
  /\ last.appended = 0

\* C4: addData (and createTable, which calls it) that throws leaves the
\* instance as it was and returns nothing.
C4_ErrorLeavesStore ==
  [][(last'.op \in {"addData", "createTable"} /\ last'.err # "none")
       => /\ data' = data
          /\ dataIndexed' = dataIndexed
          /\ returned' = NothingReturned]_vars

\* C4 happens: a batch of two tables was refused by an instance that holds
\* rows, for its hashes.
C4_Witness ==
  /\ last.op = "addData"
  /\ last.err = "hash"
  /\ Len(last.tables) = 2
  /\ RowCount(data) > 0

\* C5: a batch is refused for its hashes only with validateHashes, the
\* instance is then unchanged, and a batch accepted with validateHashes
\* carries every hash, each equal to a fresh computation.
C5_ValidateHashesRejects ==
  [][last'.op = "addData"
       => /\ (last'.err = "hash"
                => /\ last'.validateHashes
                   /\ data' = data
                   /\ dataIndexed' = dataIndexed)
          /\ (last'.err = "none" /\ last'.validateHashes
                => validate(last'.addedData) = "ok")]_vars

\* C5 happens: a batch of one table has been refused for its hashes.
C5_Witness ==
  /\ last.op = "addData"
  /\ last.err = "hash"
  /\ last.validateHashes
  /\ last.tables = <<TA>>

\* C6: every stored row carries the content hash of its fields, whatever
\* the options were and whether or not it arrived with a hash.
C6_EveryRowHashIsContentHash ==
  \A name \in TablesOf(data) :
    \A i \in 1..Len(RowsOf(data, name)) :
      RowsOf(data, name)[i]._hash = calcRowHash(RowsOf(data, name)[i])

\* C6, amended: the rows a call of addData stores carry their content hash
\* when the call has updateHashes or validateHashes set or the batch
\* carries no row hash, and so does the row addRow stores for an item that
\* arrives without a hash.
C6_RowHashIsContentHashUnlessTrusted ==
  [][/\ (last'.op = "addData" /\ last'.err = "none"
           /\ (\/ last'.updateHashes
               \/ last'.validateHashes
               \/ ~BatchCarriesRowHashes(last'.addedData)))
          => NewRowsHashed(data, returned'.data)
     /\ (last'.op = "createTable" /\ last'.err = "none")
          => NewRowsHashed(data, returned'.data)
     /\ (last'.op = "addRow" /\ last'.err = "none"
           /\ ~HasKey(last'.item, "_hash"))
          => NewRowsHashed(data, data')]_vars

\* C6 happens: updateHashes has replaced a hash the caller had supplied.
C6_Witness ==
  /\ last.op = "addData"
  /\ last.err = "none"
  /\ last.updateHashes
  /\ ~last.validateHashes
  /\ last.appended > 0
  /\ BatchCarriesWrongRowHash(last.addedData)

\* C7: the _hash of the database and the _hash of every table equal a
\* fresh computation over the tables and rows stored.
C7_AggregateHashIsFresh ==
  DOMAIN data # {}
    => /\ data[HashKey] = calcRootHash(Without(data, HashKey))
       /\ \A name \in TablesOf(data) :
            data[name]._hash = calcTableHash(RowsOf(data, name))

\* C8: addData and createTable that return, return the instance they were
\* called on, changed in place.
C8_ReturnsTheInstanceCalled ==
  (last.op \in {"addData", "createTable"} /\ last.err = "none")
    => /\ returned.same
       /\ returned.data = data
       /\ returned.dataIndexed = dataIndexed

\* C9: addData does not change the instance it is called on.
C9_AddDataLeavesTheInstance ==
  [][last'.op = "addData"
       => /\ data' = data
          /\ dataIndexed' = dataIndexed]_vars

\* The naming rules as they are documented, each over the characters.
OnlyLettersAndDigits(str) ==
  /\ str # <<>>
  /\ {str[i] : i \in 1..Len(str)} \subseteq (Letters \cup Digits)

HasRefSuffix(str) ==
  \E prefix \in {SubSeq(str, 1, n) : n \in 0..Len(str)} :
    str = prefix \o <<"R", "e", "f">>

HasLeadingDigit(str) == str # <<>> /\ Head(str) \in Digits

FirstRuleBroken(str) ==
  CASE ~OnlyLettersAndDigits(str) -> "chars"
    [] OnlyLettersAndDigits(str) /\ HasRefSuffix(str) -> "ref"
    [] OnlyLettersAndDigits(str) /\ ~HasRefSuffix(str)
         /\ HasLeadingDigit(str) -> "digit"
    [] OTHER -> "ok"

\* C10: checkTableName accepts exactly the non-empty strings of letters and
\* digits that neither end in Ref nor start with a digit, and names the
\* first rule broken in the order characters, suffix, digit;
\* checkTableNames applies it to every key but _hash, in their order.
C10_NamingRules ==
  /\ nameCall.fn = "checkTableName"
       => nameCall.result = FirstRuleBroken(nameCall.str)
  /\ nameCall.fn = "checkTableNames"
       => LET keys == nameCall.keys
              broken == {i \in 1..Len(keys) :
                           keys[i] # HashKey
                             /\ FirstRuleBroken(keys[i]) # "ok"}
          IN IF broken = {} THEN nameCall.result = "ok"
             ELSE \E i \in broken :
                    /\ \A j \in broken : i <= j
                    /\ nameCall.result = FirstRuleBroken(keys[i])

\* C10 happens: a string that breaks the suffix rule and the digit rule has
\* been refused for its suffix.
C10_Witness ==
  /\ nameCall.fn = "checkTableName"
  /\ nameCall.str = <<"1", "R", "e", "f">>
  /\ nameCall.result = "ref"

\* --------------------------------------------------------------- the queries
\* The index holds a row of hash itemHash in table name.
Stored(name, itemHash) ==
  /\ name \in DOMAIN dataIndexed
  /\ itemHash \in DOMAIN dataIndexed[name]

\* The rows the store was built from.
Inserted(name) == RowsOf(last.addedData, name)

\* C11: value() with an empty path returns the row that row() returns, for
\* every table and every hash of a row stored in it: the fields of a row
\* that was inserted together with its hash.
C11_ValueWithoutPathIsTheRow ==
  (/\ query.fn = "value"
   /\ query.path = <<>>
   /\ query.table \in TablesOf(data)
   /\ query.hash \in HashesOf(RowsOf(data, query.table)))
    => /\ query.result.err = "none"
       /\ query.result = row(dataIndexed, query.table, query.hash)
       /\ \E i \in 1..Len(Inserted(query.table)) :
            query.result.val.row
              = With(Without(Inserted(query.table)[i], "_hash"),
                     "_hash", query.hash)

\* C11 happens: value() without a path has returned a stored row that has
\* a reference among its fields.
C11_Witness ==
  /\ query.fn = "value"
  /\ query.path = <<>>
  /\ query.result.err = "none"
  /\ "bRef" \in DOMAIN query.result.val.row

\* itemHash names a row of table name, and every key of refs, followed in
\* turn from that row, is a field of the row reached whose value names a
\* row of the table the key is named after.
RECURSIVE Resolvable(_, _, _)
Resolvable(name, itemHash, refs) ==
  /\ Stored(name, itemHash)
  /\ refs # <<>>
       => /\ HasField(dataIndexed[name][itemHash], Head(refs))
          /\ Resolvable(SubSeq(Head(refs), 1, Len(Head(refs)) - 3),
                        Field(dataIndexed[name][itemHash], Head(refs)),
                        Tail(refs))

\* The row reached from the row itemHash of table name by following refs.
RECURSIVE Reached(_, _, _)
Reached(name, itemHash, refs) ==
  IF refs = <<>> THEN dataIndexed[name][itemHash]
  ELSE Reached(SubSeq(Head(refs), 1, Len(Head(refs)) - 3),
               Field(dataIndexed[name][itemHash], Head(refs)),
               Tail(refs))

AllReferences(keys) == \A i \in 1..Len(keys) : HasRefSuffix(keys[i])

\* C12: a path of reference fields that all resolve, followed by a field
\* of the row reached, yields that field of that row; a path that ends on
\* a reference field yields the whole row referred to.
C12_ChainedResolution ==
  (query.fn = "value" /\ query.path # <<>>)
    => LET path == query.path
           front == SubSeq(path, 1, Len(path) - 1)
           leaf == path[Len(path)]
       IN /\ (/\ AllReferences(path)
              /\ Resolvable(query.table, query.hash, path))
               => query.result
                    = Returns(RowValue(Reached(query.table, query.hash,
                                               path)))
          /\ (/\ front # <<>>
              /\ AllReferences(front)
              /\ ~HasRefSuffix(leaf)
              /\ Resolvable(query.table, query.hash, front)
              /\ HasField(Reached(query.table, query.hash, front), leaf))
               => query.result
                    = Returns(FieldValue(
                        Field(Reached(query.table, query.hash, front),
                              leaf)))

\* C12 happens: value() has followed two references, from table a to table
\* b and back to table a, and returned the field k of the row it reached.
C12_Witness ==
  /\ query.fn = "value"
  /\ query.table = TA
  /\ query.path = <<Spelling("bRef"), Spelling("aRef"), KeyK>>
  /\ query.result = Returns(FieldValue(1))

C14_ValueChecksInOrder ==
  query.fn = "value"
    => IF query.hash = EmptyHash
         THEN query.result.err = "emptyHash"
       ELSE IF ~hasTable(dataIndexed, query.table)
         THEN query.result
                = [err |-> "tableNotFound", table |-> query.table,
                   hash |-> EmptyHash, key |-> <<>>]
       ELSE IF query.hash \notin DOMAIN dataIndexed[query.table]
         THEN query.result
                = [err |-> "itemNotFound", table |-> query.table,
                   hash |-> query.hash, key |-> <<>>]
       ELSE (/\ query.path # <<>>
             /\ ~HasField(dataIndexed[query.table][query.hash],
                          Head(query.path)))
              => query.result
                   = [err |-> "keyNotFound", table |-> query.table,
                      hash |-> query.hash, key |-> Head(query.path)]

\* C14 happens: an empty row hash has been refused for a table the store
\* does not hold.
C14_Witness ==
  /\ query.fn = "value"
  /\ query.hash = EmptyHash
  /\ query.table = TNone
  /\ query.result.err = "emptyHash"

\* The errors value() throws when a reference does not lead to a row, and
\* the error of reading the length of a hash that is undefined.
ReferenceErrors ==
  {"emptyHash", "tableNotFound", "itemNotFound", "keyNotFound",
   "additionalKeys", "typeError"}

\* C15: for a table the store does not hold select() throws that the table
\* is not found, whatever the columns; for a table it holds, select()
\* returns one row of cells for every row of the table, in the order of
\* the table, and in every row one cell for every column, in the order of
\* the columns (a cell of a plain column being the field of that row),
\* unless a reference of a column does not resolve.
C15_SelectReturnsAGrid ==
  query.fn = "select"
    => IF query.table \notin TablesOf(data)
         THEN query.result.err = "selectTableNotFound"
       ELSE IF query.result.err # "none"
         THEN /\ query.result.err \in ReferenceErrors
              /\ \E c \in 1..Len(query.columns) :
                   HasRefSuffix(split(query.columns[c])[1])
       ELSE LET sourceRows == RowsOf(data, query.table)
                grid == query.result.val.rows
            IN /\ Len(grid) = Len(sourceRows)
               /\ \A i \in 1..Len(grid) :
                    /\ Len(grid[i]) = Len(query.columns)
                    /\ \A c \in 1..Len(query.columns) :
                         query.columns[c] = KeyK
                           => grid[i][c]
                                = IF "k" \in DOMAIN sourceRows[i]
                                    THEN FieldValue(sourceRows[i].k)
                                    ELSE Undefined

\* C15 happens: select() has returned two rows of two cells for a table of
\* two different rows.
C15_Witness ==
  /\ query.fn = "select"
  /\ query.table = TA
  /\ Len(query.columns) = 2
  /\ query.columns[2] = KeyK
  /\ query.result.err = "none"
  /\ Len(query.result.val.rows) = 2
  /\ query.result.val.rows[1][2] # query.result.val.rows[2][2]

\* C16: every cell of select() is what value() returns for the table, the
\* hash of the row and the parts of the column, and select() throws
\* exactly when one of these calls of value() throws.
C16_SelectCellsAreValues ==
  (query.fn = "select" /\ query.table \in TablesOf(data))
    => LET sourceRows == RowsOf(data, query.table)
           viaValue(i, c) ==
             value(dataIndexed, query.table,
                   hash(data, query.table, i - 1).val.v,
                   split(query.columns[c]))
           cellsOf == (1..Len(sourceRows)) \X (1..Len(query.columns))
       IN IF \E at \in cellsOf : viaValue(at[1], at[2]).err # "none"
            THEN query.result.err # "none"
            ELSE /\ query.result.err = "none"
                 /\ \A at \in cellsOf :
                      query.result.val.rows[at[1]][at[2]]
                        = viaValue(at[1], at[2]).val

\* C17: hash() returns the hash of the row at the index when the index is
\* at least 0 and less than the number of rows of the table, throws that
\* the table is not found for a table the store does not hold, and throws
\* that the index is out of range for every other index, negative ones
\* included.
C17_HashOfRowOrRangeError ==
  query.fn = "hash"
    => IF query.table \notin TablesOf(data)
         THEN query.result.err = "selectTableNotFound"
       ELSE IF /\ 0 <= query.index
               /\ query.index < Len(RowsOf(data, query.table))
         THEN query.result
                = Returns(FieldValue(
                    RowsOf(data, query.table)[query.index + 1]._hash))
       ELSE query.result.err = "indexOutOfRange"

\* The place of an element in a sequence that holds it.
Rank(seq, x) == CHOOSE i \in 1..Len(seq) : seq[i] = x

\* The paths <<table, row hash, key>> of the fields of the rows of the
\* index that are listed.
PathsOf(listed(_)) ==
  {path \in {<<name, itemHash, Spelling(field)>> :
              name \in DOMAIN dataIndexed, itemHash \in StoredHashes,
              field \in {"k", "aRef", "bRef", "cRef"}} :
     /\ Stored(path[1], path[2])
     /\ HasField(dataIndexed[path[1]][path[2]], path[3])
     /\ listed(path[3])}

\* Path p comes before path q: by table, then by row, then by field.
ComesBefore(p, q) ==
  LET rowRank(path) ==
        Rank([i \in 1..Len(RowsOf(data, path[1])) |->
                RowsOf(data, path[1])[i]._hash], path[2])
      fieldRank(path) ==
        Rank([i \in 1..Len(FieldOrder) |-> Spelling(FieldOrder[i])], path[3])
  IN \/ Rank(KeyOrder, p[1]) < Rank(KeyOrder, q[1])
     \/ /\ p[1] = q[1]
        /\ \/ rowRank(p) < rowRank(q)
           \/ rowRank(p) = rowRank(q) /\ fieldRank(p) < fieldRank(q)

\* paths holds every path of the set once, in table, row and field order.
ListsInOrder(paths, set) ==
  /\ {paths[i] : i \in 1..Len(paths)} = set
  /\ \A i, j \in 1..Len(paths) : i < j => ComesBefore(paths[i], paths[j])

\* C18 as stated: ls() lists one path for every field of every stored row
\* that is neither the hash nor a reference, in table, row and field
\* order, and no other path.
C18_LsListsNoReference ==
  query.fn = "ls"
    => ListsInOrder(query.result.val,
                    PathsOf(LAMBDA key : ~HasRefSuffix(key)))

\* C18: ls() lists one path for every field of every stored row other than
\* the hash, reference fields included, in table, row and field order,
\* and no other path.
C18_LsListsEveryFieldButTheHash ==
  query.fn = "ls"
    => ListsInOrder(query.result.val, PathsOf(LAMBDA key : TRUE))

\* C18 happens: ls() has listed the fields of two tables, a reference
\* among them.
C18_Witness ==
  /\ query.fn = "ls"
  /\ \E i, j \in 1..Len(query.result.val) :
       /\ query.result.val[i][1] = TA
       /\ query.result.val[i][3] = Spelling("bRef")
       /\ query.result.val[j][1] = TB
       /\ query.result.val[j][3] = KeyK

\* C19: table() throws that the table is not found for every name for
\* which hasTable() is false and returns the table otherwise; row() throws
\* the same for a name that is no table, throws that the item is not
\* found, naming hash and table, when no row of the table has the hash,
\* and otherwise returns the row that has the hash.
C19_AccessorsThrowForUnknown ==
  /\ query.fn = "table"
       => IF ~hasTable(dataIndexed, query.table)
            THEN query.result
                   = [err |-> "tableNotFound", table |-> query.table,
                      hash |-> EmptyHash, key |-> <<>>]
            ELSE query.result = Returns(data[query.table])
  /\ query.fn = "row"
       => IF ~hasTable(dataIndexed, query.table)
            THEN query.result
                   = [err |-> "tableNotFound", table |-> query.table,
                      hash |-> EmptyHash, key |-> <<>>]
          ELSE IF \A i \in 1..Len(RowsOf(data, query.table)) :
                    RowsOf(data, query.table)[i]._hash # query.hash
            THEN query.result
                   = [err |-> "itemNotFound", table |-> query.table,
                      hash |-> query.hash, key |-> <<>>]
          ELSE /\ query.result.err = "none"
               /\ query.result.val.row._hash = query.hash
               /\ \E i \in 1..Len(RowsOf(data, query.table)) :
                    RowsOf(data, query.table)[i] = query.result.val.row

\* The reference fields of a row all name a table of the store and a row
\* of that table.
LinksResolve(item) ==
  \A field \in DOMAIN item \ {"_hash"} :
    HasRefSuffix(Spelling(field))
      => LET target == SubSeq(Spelling(field), 1, Len(Spelling(field)) - 3)
         IN /\ target \in TablesOf(data)
            /\ item[field] \in HashesOf(RowsOf(data, target))

\* C20: checkLinks() returns without an error exactly when the reference
\* fields of every row of every table resolve, and throws in every other
\* store.
C20_CheckLinksExactly ==
  query.fn = "checkLinks"
    => (query.result.err = "none"
          <=> \A name \in TablesOf(data) :
                \A i \in 1..Len(RowsOf(data, name)) :
                  LinksResolve(RowsOf(data, name)[i]))

\* The references of the rows of the index that name a table the store
\* does not hold, or a hash no row of the table named has.
DanglingPaths ==
  {p \in PathsOf(HasRefSuffix) :
     LET target == SubSeq(p[3], 1, Len(p[3]) - 3)
     IN \/ target \notin DOMAIN dataIndexed
        \/ Field(dataIndexed[p[1]][p[2]], p[3])
             \notin DOMAIN dataIndexed[target]}

TablesWhere(batch, cond(_)) ==
  SelectSeq(TableKeys(batch), LAMBDA name : cond(batch[name]))

LacksData(entry) == "_data" \notin DOMAIN entry

DataIsNoArray(entry) ==
  "_data" \in DOMAIN entry /\ entry._data.type # "array"

\* C22: a batch with tables that lack _data is refused with one error that
\* names all of them in the order of the batch; a batch without such a
\* table but with tables whose _data is no array is refused with one
\* error that names all of those, in the order of the batch; no other batch
\* is refused for its structure.
C22_StructuralFaultsAreBatched ==
  last.op = "addData"
    => LET missing == TablesWhere(last.addedData, LacksData)
           noArray == TablesWhere(last.addedData, DataIsNoArray)
       IN IF missing # <<>>
            THEN last.err = "missing" /\ last.named = missing
          ELSE IF noArray # <<>>
            THEN last.err = "notlist" /\ last.named = noArray
          ELSE last.err \notin {"missing", "notlist"}

\* C22 happens: an error has named the two tables whose _data is no array
\* of a batch of three tables.
C22_Witness ==
  /\ last.op = "addData"
  /\ Len(last.named) = 2
  /\ Len(TableKeys(last.addedData)) = 3
  /\ last.err = "notlist"

\* C23: addData that returns leaves every table the batch does not name
\* as it is, rows and index, and gives a table of the batch that the
\* instance, which holds data, does not have the rows of the batch in
\* their order, with an index whose keys are the hashes of these rows and
\* whose rows are rows of the batch.
C23_OtherTablesStayNewTablesAdopted ==
  [][(last'.op = "addData" /\ last'.err = "none")
       => LET added == applyHashes(last'.addedData, last'.updateHashes)
          IN /\ \A name \in TablesOf(data) \ TablesOf(added) :
                  /\ data'[name] = data[name]
                  /\ dataIndexed'[name] = dataIndexed[name]
             /\ \A name \in TablesOf(added) \ TablesOf(data) :
                  /\ RowsOf(data', name) = RowsOf(added, name)
                  /\ DOMAIN dataIndexed'[name]
                       = HashesOf(RowsOf(added, name))
                  /\ \A h \in DOMAIN dataIndexed'[name] :
                       /\ dataIndexed'[name][h]._hash = h
                       /\ \E i \in 1..Len(RowsOf(added, name)) :
                            RowsOf(added, name)[i] = dataIndexed'[name][h]]_vars

\* C23 happens: an instance with rows in table a, which the batch does
\* not name, has got table b with the two rows of the batch, which share
\* a hash.
C23_Witness ==
  /\ last.op = "addData"
  /\ last.err = "none"
  /\ TA \in TablesOf(last.before.data) \ TablesOf(last.addedData)
  /\ RowsOf(last.before.data, TA) # <<>>
  /\ TB \in TablesOf(last.addedData) \ TablesOf(last.before.data)
  /\ Len(RowsOf(data, TB)) = 2
  /\ RowsOf(data, TB)[1]._hash = RowsOf(data, TB)[2]._hash

\* The places of the incoming rows whose hash no stored row and no
\* earlier incoming row carries.
NewPlaces(stored, incoming) ==
  {i \in 1..Len(incoming) :
     /\ incoming[i]._hash \notin HashesOf(stored)
     /\ \A j \in 1..(i - 1) : incoming[j]._hash # incoming[i]._hash}

\* rows is the stored rows followed by the incoming rows at the new places,
\* in incoming order.
StoredThenNew(rows, stored, incoming) ==
  LET places == NewPlaces(stored, incoming)
  IN \E at \in [1..Cardinality(places) -> places] :
       /\ \A m, n \in DOMAIN at : m < n => at[m] < at[n]
       /\ rows = stored \o [n \in DOMAIN at |-> incoming[at[n]]]

\* C24: a batch merged into a table the instance has leaves the stored
\* rows in front, followed by the incoming rows whose hash neither a
\* stored row nor an earlier row of the batch carries, in incoming order;
\* the index keeps the row it had for every hash stored before.
C24_MergeAppendsNewHashesInOrder ==
  [][(last'.op = "addData" /\ last'.err = "none")
       => LET added == applyHashes(last'.addedData, last'.updateHashes)
          IN \A name \in TablesOf(added) \cap TablesOf(data) :
               /\ StoredThenNew(RowsOf(data', name), RowsOf(data, name),
                                RowsOf(added, name))
               /\ \A h \in DOMAIN dataIndexed[name] :
                    dataIndexed'[name][h] = dataIndexed[name][h]]_vars

\* C24 happens: of two incoming rows the first was appended behind the
\* stored row, the second dropped for carrying the hash of the first; an
\* incoming row with the hash and other fields than the stored row was
\* dropped.
C24_Witness ==
  /\ last.op = "addData"
  /\ last.err = "none"
  /\ ~last.updateHashes
  /\ TA \in TablesOf(last.before.data) \cap TablesOf(last.addedData)
  /\ \/ /\ RowsOf(last.addedData, TA) = <<TrustedTwo, PlainOne>>
        /\ RowsOf(data, TA) = RowsOf(last.before.data, TA) \o <<TrustedTwo>>
     \/ /\ RowsOf(last.addedData, TA) = <<TrustedTwo>>
        /\ RowsOf(last.before.data, TA) = <<With(PlainOne, "_hash", 101)>>
        /\ RowsOf(data, TA) = RowsOf(last.before.data, TA)

\* The first row of a sequence that carries the hash.
FirstWithHash(rows, h) ==
  rows[CHOOSE i \in 1..Len(rows) :
         /\ rows[i]._hash = h
         /\ \A j \in 1..(i - 1) : rows[j]._hash # h]

\* C25: the index has the tables of the database; the keys of a table's
\* index are the hashes its rows carry; the index maps a hash to a row of
\* that hash with the fields of the first row of the sequence that
\* carries it.
C25_IndexAndSequenceInSync ==
  /\ DOMAIN dataIndexed = TablesOf(data)
  /\ \A name \in TablesOf(data) :
       /\ DOMAIN dataIndexed[name] = HashesOf(RowsOf(data, name))
       /\ \A h \in DOMAIN dataIndexed[name] :
            /\ dataIndexed[name][h]._hash = h
            /\ dataIndexed[name][h] = FirstWithHash(RowsOf(data, name), h)

\* The table and the hash of the row reached from the row itemHash of
\* table name by following refs.
RECURSIVE RowReached(_, _, _)
RowReached(name, itemHash, refs) ==
  IF refs = <<>> THEN <<name, itemHash>>
  ELSE RowReached(SubSeq(Head(refs), 1, Len(Head(refs)) - 3),
                  Field(dataIndexed[name][itemHash], Head(refs)),
                  Tail(refs))

\* The path of the query consists of reference fields that resolve and
\* that lead from the row it starts at back to that row.
FollowsCycle ==
  /\ query.fn \in {"calling", "value"}
  /\ AllReferences(query.path)
  /\ Resolvable(query.table, query.hash, query.path)
  /\ \E n \in 1..Len(query.path) :
       RowReached(query.table, query.hash, SubSeq(query.path, 1, n))
         = <<query.table, query.hash>>

\* C26 as stated: a call of value() that follows reference fields around
\* a cycle of rows never returns.
C26_CycleNeverReturns == FollowsCycle => query.fn # "value"

\* C26, amended: every call of value() ends, on a cycle of rows too, and
\* with the result of the recursion over the path.
C26_EveryValueCallReturns ==
  (query.fn = "calling")
    ~> (/\ query.fn = "value"
        /\ query.result
             = value(dataIndexed, query.table, query.hash, query.path))

\* C26 happens: a call whose path goes around the cycle twice has returned
\* the row it started at.
C26_Witness ==
  /\ query.fn = "value"
  /\ FollowsCycle
  /\ Len(query.path) = 4
  /\ query.result = Returns(RowValue(dataIndexed[query.table][query.hash]))

\* C27: no table of a batch is in both lists of _checkData: a table
\* without _data is in the list of the missing ones only, a table whose
\* _data is no array in the list of the wrong types only.
C27_OffenderListsAreDisjoint ==
  last.op = "addData"
    => LET missing == last.tablesWithMissingData
           wrongType == last.tablesWithWrongType
           In(list, name) == \E i \in 1..Len(list) : list[i] = name
       IN \A name \in TablesOf(last.addedData) :
            /\ ~(In(missing, name) /\ In(wrongType, name))
            /\ LacksData(last.addedData[name])
                 => In(missing, name) /\ ~In(wrongType, name)
            /\ DataIsNoArray(last.addedData[name])
                 => In(wrongType, name) /\ ~In(missing, name)

\* Two database objects have the same tables, and each table's rows
\* carry the same hashes.
SameRowsStored(one, other) ==
  /\ TablesOf(one) = TablesOf(other)
  /\ \A name \in TablesOf(one) :
       HashesOf(RowsOf(one, name)) = HashesOf(RowsOf(other, name))

\* What the instance holds when the last two calls of addData are made
\* the other way round on the instance as it was before them.
OtherWayRound ==
  LET start == last.earlier.before
      first == addData(start.data, start.dataIndexed,
                       last.addedData, FALSE, last.updateHashes)
  IN addData(first.data, first.dataIndexed,
             last.earlier.addedData, FALSE, last.earlier.updateHashes)

TwoMerges == last.op = "addData" /\ last.earlier.op = "addData"

\* C28: two calls of addData on an instance that holds data leave the
\* same tables, and in every table rows of the same hashes, as the two
\* calls made the other way round; index and data agree on it.
C28_MergeOrderKeepsTheRowsStored ==
  TwoMerges
    => \E other \in {OtherWayRound} :
         /\ SameRowsStored(data, other.data)
         /\ \A name \in TablesOf(data) :
              DOMAIN dataIndexed[name] = DOMAIN other.dataIndexed[name]

\* C28 happens: two batches that returned have both brought table b, which
\* the instance did not have, with different rows, and the other way
\* round table b has its rows in another order.
C28_Witness ==
  /\ TwoMerges
  /\ last.err = "none"
  /\ last.earlier.err = "none"
  /\ TB \notin TablesOf(last.earlier.before.data)
  /\ TB \in TablesOf(last.addedData) \cap TablesOf(last.earlier.addedData)
  /\ RowsOf(data, TB) # RowsOf(OtherWayRound.data, TB)

\* Every key of the path is a field of the row reached so far, and only
\* the last key may be a field that is no reference.
RECURSIVE FieldsPresent(_, _, _)
FieldsPresent(name, itemHash, path) ==
  IF path = <<>> \/ ~Stored(name, itemHash) THEN TRUE
  ELSE /\ HasField(dataIndexed[name][itemHash], Head(path))
       /\ IF HasRefSuffix(Head(path))
            THEN FieldsPresent(SubSeq(Head(path), 1, Len(Head(path)) - 3),
                               Field(dataIndexed[name][itemHash], Head(path)),
                               Tail(path))
            ELSE Tail(path) = <<>>

\* C29: in a store on which checkLinks() returns, value() called for the
\* hash of a stored row throws for no path that a table or a row is not
\* found, and it does not throw at all for a path of reference fields,
\* each a field of the row reached so far, with at most one plain field
\* of the last row at its end.
C29_CheckedLinksResolve ==
  (/\ query.fn = "value"
   /\ query.table \in TablesOf(data)
   /\ query.hash \in HashesOf(RowsOf(data, query.table))
   /\ checkLinks(data, dataIndexed).err = "none")
    => /\ query.result.err \notin {"tableNotFound", "itemNotFound"}
       /\ FieldsPresent(query.table, query.hash, query.path)
            => query.result.err = "none"

\* C29 happens: in a store on which checkLinks() returns, value() has
\* followed two references and returned a field of the row reached.
C29_Witness ==
  /\ query.fn = "value"
  /\ checkLinks(data, dataIndexed).err = "none"
  /\ query.path = <<Spelling("bRef"), Spelling("aRef"), KeyK>>
  /\ query.result = Returns(FieldValue(1))

\* The item as addRow writes it: with the hash it brings, or else with
\* its content hash.
Hashed(item) ==
  IF "_hash" \in DOMAIN item THEN item
  ELSE [field \in DOMAIN item \cup {"_hash"} |->
          IF field = "_hash" THEN calcRowHash(item) ELSE item[field]]

====
